---------------------------- MODULE Spec2Model ----------------------------
(***************************************************************************)
(* Kohya_prep: the two dataset-preparation scripts.                        *)
(*                                                                         *)
(*   resizeImages.py  process_images: clears the target root, builds the   *)
(*                    Kohya directory layout, then runs process_image      *)
(*                    (grabCut background removal, EXIF orientation,       *)
(*                    square crop + thumbnail, save) over the source       *)
(*                    directory, naming outputs image_<sequence_number>.   *)
(*   mov2Images.py    for a still image or every frame of a .mov: detect   *)
(*                    faces, pick one at random, write its feature crop    *)
(*                    and its head crop (get_head_crop + resize_and_pad).  *)
(*                                                                         *)
(* Rasters are modelled by their dimensions (and, for the alpha matte, by  *)
(* one pixel); paths are sequences of path components; file and directory  *)
(* names are the strings the f-strings of the source build.                *)
(*                                                                         *)
(* Arithmetic.  The source scales with Python floats.  The integer         *)
(* formulas below are the exact values; they were compared with the float  *)
(* code for every input inside the bounds used here (and one above) and    *)
(* agree there.  Where float rounding alone decides (an exact tie inside   *)
(* Image.thumbnail) the model offers both outcomes.                        *)
(***************************************************************************)
EXTENDS Integers, Sequences, FiniteSets, TLC

VARIABLES
    \* ---- resizeImages.py, process_images --------------------------------
    cfg,              \* the call's arguments: lora_name, class_name, root, size, output_format
    source_dir,       \* os.listdir(source_dir): a sequence of file records
    fs,               \* the directories that exist at or below the target root
    leaf,             \* local target_dir once the layout is built (a path)
    file_count,       \* local file_count
    pc,               \* "idle" | "start" | "loop" | "done" | "aborted"
    idx,              \* position of the for loop in os.listdir(source_dir)
    sequence_number,  \* local sequence_number
    assigned,         \* per visited file: the output_file_name built for it, "" if none
    outcome,          \* per visited file: "skipped" | "written" | "caught" | "raised"
    written,          \* the output files on disk: records [dir, name, w, h]
    \* ---- mov2Images.py, the script body ----------------------------------
    input,            \* what file_path names: exists, kind, readable, H, W, nframes
    mpc,              \* "idle" | "open" | "loop" | "done" | "crashed"
    frame_idx,        \* frames read so far by cap.read()
    frame_count,      \* local frame_count
    saved,            \* names of the files cv2.imwrite wrote into output_dir
    history,          \* per processed frame: [faces, pairs]
    \* ---- one call of a function, for the function-level properties -------
    args,             \* the function called and its arguments
    ret               \* [done |-> FALSE] before the call, then what it returned

batchVars == <<cfg, source_dir, fs, leaf, file_count, pc, idx, sequence_number,
               assigned, outcome, written>>
movVars   == <<input, mpc, frame_idx, frame_count, saved, history>>
callVars  == <<args, ret>>
vars      == <<batchVars, movVars, callVars>>

\* Bounds of the model.
MaxDim    == 6    \* resize_and_pad: image height and width
MaxTarget == 8    \* resize_and_pad: target sizes tried beside 512
MaxFrameH == 5    \* get_head_crop: frame height
MaxFrameW == 5    \* get_head_crop: frame width
MaxVideoH == 2    \* the script: frame height
MaxVideoW == 2    \* the script: frame width
MaxFrames == 3    \* frames in a video
MaxFaces  == 3    \* faces the detector returns on one frame
MaxFiles  == 3    \* entries of the source directory
MaxMargin == 3    \* process_image: width and height above the inset
MaxSide   == 7    \* make_square_and_resize: image width and height
MaxSize   == 5    \* make_square_and_resize: the size asked for
MaxDark   == 2    \* the alpha matte: the darkest channel values tried

Max(a, b) == IF a >= b THEN a ELSE b
Min(a, b) == IF a <= b THEN a ELSE b
Abs(a)    == IF a >= 0 THEN a ELSE 0 - a

(***************************************************************************)
(* The parts of the state a specification does not use stay at rest.       *)
(***************************************************************************)
BatchIdle ==
    /\ cfg = [lora_name |-> "", class_name |-> "", root |-> <<>>, size |-> 0,
              output_format |-> ""]
    /\ source_dir = <<>> /\ fs = {} /\ leaf = <<>> /\ file_count = 0
    /\ pc = "idle" /\ idx = 0 /\ sequence_number = 0
    /\ assigned = <<>> /\ outcome = <<>> /\ written = {}

MovIdle ==
    /\ input = [exists |-> FALSE, kind |-> "other", readable |-> FALSE,
                H |-> 0, W |-> 0, nframes |-> 0]
    /\ mpc = "idle" /\ frame_idx = 0 /\ frame_count = 0
    /\ saved = {} /\ history = <<>>

CallIdle == args = [fn |-> "none"] /\ ret = [done |-> FALSE]

(***************************************************************************)
(*                          mov2Images.py                                  *)
(***************************************************************************)

\* target_size=(512, 512), the default of resize_and_pad
DefaultTarget == 512

\* random_color(): three random bytes.  Only the extremes are kept.
ColorSamples == {<<0, 0, 0>>, <<255, 255, 255>>}

\* int(x * ratio) with ratio = float(target) / longest: the exact floor.
Scaled(x, target, longest) == (x * target) \div longest

\* resize_and_pad(image, target_size): image is its shape <<h, w>>,
\* target_size a pair.  cv2.resize rejects an empty destination size and
\* cv2.copyMakeBorder a negative border: both raise.
resize_and_pad(shape, target_size, padding_color) ==
    LET longest == Max(shape[1], shape[2])
        new_h   == Scaled(shape[1], target_size[1], longest)
        new_w   == Scaled(shape[2], target_size[1], longest)
        pad_h   == (target_size[1] - new_h) \div 2
        pad_w   == (target_size[2] - new_w) \div 2
    IN  IF new_h = 0 \/ new_w = 0 \/ pad_h < 0 \/ pad_w < 0
        THEN [raised |-> TRUE]
        ELSE [raised |-> FALSE,
              new_size |-> <<new_h, new_w>>,
              pad |-> <<pad_h, pad_w>>,
              shape |-> <<new_h + pad_h + pad_h, new_w + pad_w + pad_w>>,
              border |-> padding_color]

\* head_top without the clamp at 0.
head_top_Unclamped(f) == (3 * f.top - f.bottom) \div 2

\* The four int(max(0, ...)) / int(min(limit, ...)) lines of get_head_crop.
\* top - (bottom-top)*0.5 = (3 top - bottom)/2, and so on; int() of a value
\* that is never negative is its floor.
head_top(f)         == Max(0, 3 * f.top - f.bottom) \div 2
head_bottom(H, f)   == Min(4 * H, 5 * f.bottom - f.top) \div 4
head_left(f)        == Max(0, 11 * f.left - f.right) \div 10
head_right(W, f)    == Min(10 * W, 11 * f.right - f.left) \div 10

\* get_head_crop(frame, face_location): frame is its shape <<H, W>>.
get_head_crop(frame, face_location, padding_color) ==
    LET t == head_top(face_location)
        b == head_bottom(frame[1], face_location)
        l == head_left(face_location)
        r == head_right(frame[2], face_location)
        \* frame[t:b, l:r]: an empty or reversed slice has length 0
        head_region == <<Max(0, b - t), Max(0, r - l)>>
    IN  [rect |-> [top |-> t, right |-> r, bottom |-> b, left |-> l],
         region |-> head_region,
         crop |-> IF head_region[1] = 0 \/ head_region[2] = 0
                  THEN [raised |-> TRUE]    \* cv2.resize of an empty array
                  ELSE resize_and_pad(head_region,
                                      <<DefaultTarget, DefaultTarget>>,
                                      padding_color)]

\* The face rects a detector may return on an H x W frame:
\* 0 <= top < bottom <= H and 0 <= left < right <= W.
FaceRects(H, W) ==
    UNION {{[top |-> t, right |-> r, bottom |-> b, left |-> l] :
               b \in (t + 1)..H, r \in (l + 1)..W} :
           t \in 0..(H - 1), l \in 0..(W - 1)}

\* What the code reads of face_recognition.face_locations(frame): whether the
\* list is empty, and the element random.choice returns.  n is the length of
\* the list and face the element chosen.
FaceLocations(H, W) ==
    {[n |-> 0]} \cup
    {[n |-> n, face |-> f] : n \in 1..MaxFaces, f \in FaceRects(H, W)}

\* face_recognition.face_landmarks(face_crop): empty, or one mapping whose
\* keys become the tags.
LandmarkLists == {<<>>, <<"chin", "nose_tip">>}
FallbackTags == <<"face", "forehead", "eye_region", "nose_region",
                  "mouth_region", "chin_region">>

NoCrop == [none |-> TRUE]

\* get_random_face_crop_and_tags giving up unless exactly one face was found.
get_random_face_crop_and_tags_SingleFaceOnly(frame, face_locations, landmarks, padding_color) ==
    IF face_locations.n # 1
    THEN [raised |-> FALSE, face_crop |-> NoCrop, feature_tags |-> <<>>,
          entire_head_crop |-> NoCrop, head_tags |-> <<>>]
    ELSE [raised |-> FALSE,
          face_crop |-> [none |-> FALSE,
                         shape |-> <<face_locations.face.bottom - face_locations.face.top,
                                     face_locations.face.right - face_locations.face.left>>],
          feature_tags |-> FallbackTags,
          entire_head_crop |-> [none |-> FALSE,
                                shape |-> <<DefaultTarget, DefaultTarget>>],
          head_tags |-> <<"head", "face">> \o FallbackTags]

\* get_random_face_crop_and_tags(frame, face_locations)
get_random_face_crop_and_tags(frame, face_locations, landmarks, padding_color) ==
    IF face_locations.n = 0
    THEN [raised |-> FALSE, face_crop |-> NoCrop, feature_tags |-> <<>>,
          entire_head_crop |-> NoCrop, head_tags |-> <<>>]
    ELSE LET f    == face_locations.face
             tags == IF landmarks # <<>> THEN landmarks ELSE FallbackTags
             head == get_head_crop(frame, f, padding_color)
         IN  IF head.crop.raised
             THEN [raised |-> TRUE]
             ELSE [raised |-> FALSE,
                   face_crop |-> [none |-> FALSE,
                                  shape |-> <<f.bottom - f.top, f.right - f.left>>],
                   feature_tags |-> tags,
                   entire_head_crop |-> [none |-> FALSE, shape |-> head.crop.shape],
                   head_tags |-> <<"head", "face">> \o tags]

\* The two cv2.imwrite calls guarded by
\* "feature_crop is not None and entire_head_crop is not None".
CropFiles(r, feature_name, head_name) ==
    IF ~r.face_crop.none /\ ~r.entire_head_crop.none
    THEN {feature_name, head_name}
    ELSE {}

\* ---- the script body ----------------------------------------------------

\* os.path.exists(file_path) is false: the else branch prints and ends.
NotFound ==
    /\ mpc = "open" /\ ~input.exists
    /\ mpc' = "done"
    /\ UNCHANGED <<input, frame_idx, frame_count, saved, history>>
    /\ UNCHANGED <<batchVars, callVars>>

\* Neither an image suffix nor .mov: no branch is taken.
OtherExtension ==
    /\ mpc = "open" /\ input.exists /\ input.kind = "other"
    /\ mpc' = "done"
    /\ UNCHANGED <<input, frame_idx, frame_count, saved, history>>
    /\ UNCHANGED <<batchVars, callVars>>

\* The .png/.jpg/.jpeg branch: one detection on the image.
StillImage ==
    /\ mpc = "open" /\ input.exists /\ input.kind = "image"
    /\ IF ~input.readable
       THEN \* cv2.imread returned None: print and exit()
            /\ mpc' = "done"
            /\ UNCHANGED <<saved, history>>
       ELSE \E d \in FaceLocations(input.H, input.W), lm \in LandmarkLists,
               c \in ColorSamples :
              LET r == get_random_face_crop_and_tags(<<input.H, input.W>>, d, lm, c)
              IN  IF r.raised
                  THEN mpc' = "crashed" /\ UNCHANGED <<saved, history>>
                  ELSE LET files == CropFiles(r, "feature_crop.png", "head_crop.png")
                       IN  /\ saved' = saved \cup files
                           /\ history' = Append(history,
                                  [faces |-> d.n, pairs |-> Cardinality(files) \div 2])
                           /\ mpc' = "done"
    /\ UNCHANGED <<input, frame_idx, frame_count>>
    /\ UNCHANGED <<batchVars, callVars>>

\* The .mov branch up to the loop: cv2.VideoCapture, frame_count = 0.
OpenVideo ==
    /\ mpc = "open" /\ input.exists /\ input.kind = "mov"
    /\ mpc' = "loop" /\ frame_count' = 0 /\ frame_idx' = 0
    /\ UNCHANGED <<input, saved, history>>
    /\ UNCHANGED <<batchVars, callVars>>

\* One iteration of "while True" in which cap.read() returned a frame.
ReadFrame ==
    /\ mpc = "loop" /\ frame_idx < input.nframes
    /\ \E d \in FaceLocations(input.H, input.W), lm \in LandmarkLists,
          c \in ColorSamples :
         LET r == get_random_face_crop_and_tags(<<input.H, input.W>>, d, lm, c)
         IN  IF r.raised
             THEN /\ mpc' = "crashed"
                  /\ UNCHANGED <<frame_idx, frame_count, saved, history>>
             ELSE LET files == CropFiles(r,
                          "feature_crop_" \o ToString(frame_count) \o ".png",
                          "head_crop_" \o ToString(frame_count) \o ".png")
                  IN  /\ saved' = saved \cup files
                      /\ frame_count' = IF files # {} THEN frame_count + 1
                                        ELSE frame_count
                      /\ history' = Append(history,
                              [faces |-> d.n, pairs |-> Cardinality(files) \div 2])
                      /\ frame_idx' = frame_idx + 1
                      /\ mpc' = "loop"
    /\ UNCHANGED input
    /\ UNCHANGED <<batchVars, callVars>>

\* cap.read() returned ret = False: break, cap.release().
EndOfVideo ==
    /\ mpc = "loop" /\ frame_idx = input.nframes
    /\ mpc' = "done"
    /\ UNCHANGED <<input, frame_idx, frame_count, saved, history>>
    /\ UNCHANGED <<batchVars, callVars>>

Inputs ==
    {[exists |-> e, kind |-> k, readable |-> rd, H |-> h, W |-> w, nframes |-> n] :
        e \in BOOLEAN, k \in {"image", "mov", "other"}, rd \in BOOLEAN,
        h \in 1..MaxVideoH, w \in 1..MaxVideoW, n \in 0..MaxFrames}

InitMov ==
    /\ BatchIdle /\ CallIdle
    /\ input \in {i \in Inputs :
                    /\ (i.kind # "mov" => i.nframes = 0)
                    /\ (i.kind = "mov" => i.readable)
                    /\ (~i.exists => i.kind = "other" /\ ~i.readable)
                    /\ (~i.readable => i.H = 1 /\ i.W = 1)}
    /\ mpc = "open" /\ frame_idx = 0 /\ frame_count = 0
    /\ saved = {} /\ history = <<>>

NextMov == NotFound \/ OtherExtension \/ StillImage \/ OpenVideo \/ ReadFrame
              \/ EndOfVideo

SpecMov == InitMov /\ [][NextMov]_vars

(***************************************************************************)
(*                          resizeImages.py                                *)
(***************************************************************************)

\* rect = (50, 50, img.shape[1]-50, img.shape[0]-50)
Inset == 50
\* factor = 3
Factor == 3

\* An image in flight: its size, how its raster is laid out relative to the
\* raster stored in the source file (turn: degrees counter-clockwise;
\* mirrored), and what img._getexif offers:
\*   [kind |-> "noattr"]            the object has no _getexif (AttributeError)
\*   [kind |-> "none"]              _getexif() returns None (AttributeError)
\*   [kind |-> "dict", tag |-> v]   a dict; v = 0: no Orientation key (KeyError)
Image(w, h, turn, mirrored, exif) ==
    [w |-> w, h |-> h, turn |-> turn, mirrored |-> mirrored, exif |-> exif]

\* img.rotate(angle, expand=True): a fresh image, which carries no EXIF.
rotate(img, angle) ==
    Image(IF angle \in {90, 270} THEN img.h ELSE img.w,
          IF angle \in {90, 270} THEN img.w ELSE img.h,
          (img.turn + angle) % 360, img.mirrored, [kind |-> "noattr"])

\* correct_orientation(img)
correct_orientation(img) ==
    IF img.exif.kind # "dict" THEN img          \* except AttributeError: pass
    ELSE IF img.exif.tag = 0 THEN img           \* except KeyError: pass
    ELSE IF img.exif.tag = 3 THEN rotate(img, 180)
    ELSE IF img.exif.tag = 6 THEN rotate(img, 270)
    ELSE IF img.exif.tag = 8 THEN rotate(img, 90)
    ELSE img

\* Python 3 round() of n/2: halves go to the even neighbour.  Image.crop
\* rounds each coordinate of its box this way (int(round(x))).
RoundHalf(n) ==
    IF n % 2 = 0 THEN n \div 2
    ELSE LET k == (n - 1) \div 2 IN IF k % 2 = 0 THEN k ELSE k + 1

\* Image.thumbnail((size, size)) on a cw x ch image: the sizes it may leave.
\* It never enlarges; it picks floor or ceil of the scaled side, whichever
\* keeps the aspect ratio closer, and at least 1.  On an exact tie the float
\* comparison decides: both are offered.
thumbnail(cw, ch, size) ==
    IF size >= cw /\ size >= ch THEN {<<cw, ch>>}
    ELSE IF cw <= ch
    THEN LET num == size * cw
             lo  == num \div ch
             hi  == IF num % ch = 0 THEN lo ELSE lo + 1
             dlo == Abs(num - lo * ch)
             dhi == Abs(num - hi * ch)
         IN  {<<Max(n, 1), size>> :
                 n \in {m \in {lo, hi} : IF m = lo THEN dlo <= dhi ELSE dhi <= dlo}}
    ELSE LET num == size * ch
             lo  == num \div cw
             hi  == IF num % cw = 0 THEN lo ELSE lo + 1
             dlo == Abs(cw * lo - num) * hi
             dhi == Abs(cw * hi - num) * lo
         IN  {<<size, Max(n, 1)>> :
                 n \in {m \in {lo, hi} :
                          IF lo = 0 THEN m = lo     \* the key of 0 is 0
                          ELSE IF m = lo THEN dlo <= dhi ELSE dhi <= dlo}}

\* make_square_and_resize(img, size): the images it may return.
make_square_and_resize(img, size) ==
    LET short_side == Min(img.w, img.h)
        left   == RoundHalf(img.w - short_side)
        top    == RoundHalf(img.h - short_side)
        right  == RoundHalf(img.w + short_side)
        bottom == RoundHalf(img.h + short_side)
    IN  {Image(t[1], t[2], img.turn, img.mirrored, [kind |-> "noattr"]) :
            t \in thumbnail(right - left, bottom - top, size)}

\* One pixel through lines 144-153 of remove_background_using_grabcut:
\* mask2 = 0 where the mask says (probable) background, the colour times
\* mask2, alpha = 255 where the grey value of that product is above 0
\* (cv2.cvtColor BGR2GRAY in 14-bit fixed point), merged as b, g, r, alpha;
\* Image.fromarray reads the four channels in that order.
matte(bgr, mask) ==
    LET mask2 == IF mask = 2 \/ mask = 0 THEN 0 ELSE 1
        b     == bgr[1] * mask2
        g     == bgr[2] * mask2
        r     == bgr[3] * mask2
        tmp   == (1868 * b + 9617 * g + 4899 * r + 8192) \div 16384
        alpha == IF tmp > 0 THEN 255 ELSE 0
    IN  <<b, g, r, alpha>>

\* How cv2.imread lays the raster out for an EXIF orientation tag when it
\* honours the tag (1: as stored ... 8: turned 90 degrees counter-clockwise).
ExifLayout(tag) ==
    CASE tag = 2 -> [turn |-> 0,   mirrored |-> TRUE]
      [] tag = 3 -> [turn |-> 180, mirrored |-> FALSE]
      [] tag = 4 -> [turn |-> 180, mirrored |-> TRUE]
      [] tag = 5 -> [turn |-> 90,  mirrored |-> TRUE]
      [] tag = 6 -> [turn |-> 270, mirrored |-> FALSE]
      [] tag = 7 -> [turn |-> 270, mirrored |-> TRUE]
      [] tag = 8 -> [turn |-> 90,  mirrored |-> FALSE]
      [] OTHER   -> [turn |-> 0,   mirrored |-> FALSE]

\* remove_background_using_grabcut(input_path) at the level of the image.
\* file: what input_path holds (decodable: cv2.imread can decode it; w, h;
\* tag: its EXIF orientation, 0 when it has none).  imread_orients: whether
\* this build of cv2.imread applies the EXIF orientation while decoding.
\*   cv2.imread returns None          -> img.shape: AttributeError
\*   the rect has no width or height  -> cv2.grabCut: cv2.error
\* The result is Image.fromarray(dst), an object without _getexif.
remove_background_using_grabcut(file, imread_orients) ==
    IF ~file.decodable THEN [raised |-> TRUE, error |-> "AttributeError"]
    ELSE LET lay  == IF imread_orients THEN ExifLayout(file.tag)
                     ELSE [turn |-> 0, mirrored |-> FALSE]
             cols == IF lay.turn \in {90, 270} THEN file.h ELSE file.w
             rows == IF lay.turn \in {90, 270} THEN file.w ELSE file.h
         IN  IF cols - Inset <= 0 \/ rows - Inset <= 0
             THEN [raised |-> TRUE, error |-> "cv2.error"]
             ELSE [raised |-> FALSE,
                   img |-> Image(cols, rows, lay.turn, lay.mirrored,
                                 [kind |-> "noattr"])]

\* img.save(output_path, format=output_format) of the RGBA image.
\*   JPEG cannot hold RGBA: OSError.  A name Pillow does not know: KeyError.
\*   disk_ok = FALSE: the write itself fails, OSError.
OutputFormats == {"PNG", "JPEG", "JPG"}
save(img, output_format, disk_ok) ==
    IF output_format \notin {"PNG", "JPEG"} THEN "KeyError"
    ELSE IF output_format = "JPEG" \/ ~disk_ok THEN "OSError"
    ELSE "ok"

\* process_image(lora_name, class_name, input_path, output_path,
\*               output_format, size): the ways the call may end.
\*   [status |-> "written", img]   the file was saved
\*   [status |-> "caught"]         except IOError: printed, the call returns
\*   [status |-> "raised", error]  any other exception leaves the call
process_image(file, output_format, size, imread_orients, disk_ok) ==
    LET bg == remove_background_using_grabcut(file, imread_orients)
    IN  IF bg.raised THEN {[status |-> "raised", error |-> bg.error]}
        ELSE {LET st == save(sq, output_format, disk_ok)
              IN  IF st = "ok" THEN [status |-> "written", img |-> sq]
                  ELSE IF st = "OSError" THEN [status |-> "caught"]
                  ELSE [status |-> "raised", error |-> st] :
                 sq \in make_square_and_resize(correct_orientation(bg.img), size)}

\* ---- process_images -------------------------------------------------------

\* A directory entry of source_dir:
\*   hidden     its name starts with "."
\*   ext        its suffix is one of allowed_extensions
\*   valid      Image.open(...).verify() succeeds (is_valid_image)
\*   decodable, w, h, tag   as read by remove_background_using_grabcut
File(hidden, ext, valid, decodable, w, h, tag) ==
    [hidden |-> hidden, ext |-> ext, valid |-> valid, decodable |-> decodable,
     w |-> w, h |-> h, tag |-> tag]

SourceFiles ==
    { File(TRUE,  TRUE,  FALSE, FALSE, 0,  0,  0),   \* ._a.jpg, a resource fork
      File(FALSE, TRUE,  FALSE, FALSE, 0,  0,  0),   \* a truncated a.jpg
      File(FALSE, TRUE,  TRUE,  TRUE,  64, 64, 1),   \* a photo
      File(FALSE, TRUE,  TRUE,  TRUE,  40, 64, 1),   \* a photo narrower than the inset
      File(FALSE, TRUE,  TRUE,  FALSE, 64, 64, 0),   \* a.gif: Pillow reads it, cv2.imread does not
      File(FALSE, FALSE, TRUE,  TRUE,  64, 64, 1) }  \* a.PNG: valid, suffix not in the list

Listings == UNION {[1..n -> SourceFiles] : n \in 0..MaxFiles}

\* is_valid_image(file_path)
is_valid_image(file) == file.valid

\* delete_hidden_files_and_directories(directory): what os.listdir shows after.
delete_hidden_files_and_directories(listing) ==
    SelectSeq(listing, LAMBDA f : ~f.hidden)

\* count_files(directory, allowed_extensions)
count_files(listing) == Len(SelectSeq(listing, LAMBDA f : f.ext))

\* os.path.join(path, name), for a relative name without separators.
join(path, name) == Append(path, name)

\* multiplier with the factor left out.
multiplier_NoFactor(n) == n

\* f"{multiplier}_{class_name}" and f"{multiplier}_{class_name} {lora_name}"
multiplier(n) == Factor * n
class_dir_name(n, class_name) == ToString(multiplier(n)) \o "_" \o class_name
leaf_dir_name(n, class_name, lora_name) ==
    ToString(multiplier(n)) \o "_" \o class_name \o " " \o lora_name

\* The target root as process_images leaves it before building the layout:
\* created if missing, else removed with all it holds and created again.
clear_target(dirs, root) == {root}

\* os.makedirs(path) for each path in turn; a path that exists raises
\* FileExistsError, which ends process_images.
RECURSIVE makedirs_all(_, _)
makedirs_all(dirs, paths) ==
    IF paths = <<>> THEN [raised |-> FALSE, dirs |-> dirs]
    ELSE IF Head(paths) \in dirs THEN [raised |-> TRUE, dirs |-> dirs]
    ELSE makedirs_all(dirs \cup {Head(paths)}, Tail(paths))

\* Lines 205-216: the six directories, in the order they are made.
layout(root, n, class_name, lora_name) ==
    LET d1 == join(root, class_dir_name(n, class_name))
        d2 == join(d1, "dest")
        d3 == join(d2, "img")
    IN  <<d1, d2, d3, join(d3, "log"), join(d3, "model"),
          join(d3, leaf_dir_name(n, class_name, lora_name))>>

\* output_format.lower()
lower(output_format) ==
    CASE output_format = "PNG"  -> "png"
      [] output_format = "JPEG" -> "jpeg"
      [] output_format = "JPG"  -> "jpg"
      [] OTHER -> output_format

\* f"image_{sequence_number}.{output_format.lower()}"
output_file_name(n, output_format) ==
    "image_" \o ToString(n) \o "." \o lower(output_format)

\* Lines 189-220: clear the root, delete the hidden files, count, build the
\* layout, sequence_number = 1.
Setup ==
    /\ pc = "start"
    /\ LET listing == delete_hidden_files_and_directories(source_dir)
           n       == count_files(listing)
           dirs    == layout(cfg.root, n, cfg.class_name, cfg.lora_name)
           made    == makedirs_all(clear_target(fs, cfg.root), dirs)
       IN  /\ source_dir' = listing
           /\ file_count' = n
           /\ fs' = made.dirs
           /\ IF made.raised
              THEN pc' = "aborted" /\ UNCHANGED <<leaf, sequence_number, idx>>
              ELSE /\ leaf' = dirs[Len(dirs)]
                   /\ sequence_number' = 1
                   /\ idx' = 1
                   /\ pc' = "loop"
    /\ UNCHANGED <<cfg, assigned, outcome, written>>
    /\ UNCHANGED <<movVars, callVars>>

\* SkipInvalid with the counter advanced outside the validity test.
SkipInvalid_TakesNumber ==
    /\ pc = "loop" /\ idx <= Len(source_dir)
    /\ ~source_dir[idx].valid
    /\ assigned' = Append(assigned, "")
    /\ outcome' = Append(outcome, "skipped")
    /\ idx' = idx + 1
    /\ sequence_number' = sequence_number + 1
    /\ UNCHANGED <<cfg, source_dir, fs, leaf, file_count, pc, written>>
    /\ UNCHANGED <<movVars, callVars>>

\* A loop iteration on a file is_valid_image rejects: nothing happens.
SkipInvalid ==
    /\ pc = "loop" /\ idx <= Len(source_dir)
    /\ ~is_valid_image(source_dir[idx])
    /\ assigned' = Append(assigned, "")
    /\ outcome' = Append(outcome, "skipped")
    /\ idx' = idx + 1
    /\ UNCHANGED <<cfg, source_dir, fs, leaf, file_count, pc, sequence_number, written>>
    /\ UNCHANGED <<movVars, callVars>>

\* next_sequence_number advancing only when the file was written.
next_sequence_number_OnWrite(n, status) == IF status = "written" THEN n + 1 ELSE n

\* The sequence number after process_image returned.
next_sequence_number(n, status) == n + 1

\* A loop iteration on a valid file (lines 224-227).
ProcessValid ==
    /\ pc = "loop" /\ idx <= Len(source_dir)
    /\ is_valid_image(source_dir[idx])
    /\ \E imread_orients \in BOOLEAN, disk_ok \in BOOLEAN :
       \E r \in process_image(source_dir[idx], cfg.output_format, cfg.size,
                              imread_orients, disk_ok) :
         LET name == output_file_name(sequence_number, cfg.output_format)
         IN  /\ assigned' = Append(assigned, name)
             /\ outcome' = Append(outcome, r.status)
             /\ idx' = idx + 1
             /\ written' = IF r.status = "written"
                           THEN {x \in written : x.name # name} \cup
                                {[dir |-> leaf, name |-> name,
                                  w |-> r.img.w, h |-> r.img.h]}
                           ELSE written
             /\ IF r.status = "raised"
                THEN pc' = "aborted" /\ UNCHANGED sequence_number
                ELSE /\ sequence_number' =
                            next_sequence_number(sequence_number, r.status)
                     /\ pc' = "loop"
    /\ UNCHANGED <<cfg, source_dir, fs, leaf, file_count>>
    /\ UNCHANGED <<movVars, callVars>>

\* os.listdir is exhausted: process_images returns.
Finish ==
    /\ pc = "loop" /\ idx > Len(source_dir)
    /\ pc' = "done"
    /\ UNCHANGED <<cfg, source_dir, fs, leaf, file_count, idx, sequence_number,
                   assigned, outcome, written>>
    /\ UNCHANGED <<movVars, callVars>>

Root == <<"output">>

\* The target root before the call: missing, empty, or left by an earlier run.
TargetStates ==
    { {}, {Root},
      {Root, join(Root, class_dir_name(1, "woman")),
       join(join(Root, class_dir_name(1, "woman")), "dest")} }

Init ==
    /\ MovIdle /\ CallIdle
    /\ cfg \in [lora_name : {"m4rni"}, class_name : {"woman"}, root : {Root},
                size : {64}, output_format : OutputFormats]
    /\ source_dir \in Listings
    /\ fs \in TargetStates
    /\ leaf = <<>> /\ file_count = 0
    /\ pc = "start" /\ idx = 0 /\ sequence_number = 0
    /\ assigned = <<>> /\ outcome = <<>> /\ written = {}

Next == Setup \/ SkipInvalid \/ ProcessValid \/ Finish

Spec == Init /\ [][Next]_vars

\* ---- single calls ---------------------------------------------------------

TargetSizes == (1..MaxTarget) \cup {DefaultTarget}

InitPad ==
    /\ BatchIdle /\ MovIdle
    /\ args \in {[fn |-> "resize_and_pad", h |-> h, w |-> w, N |-> n] :
                    h \in 1..MaxDim, w \in 1..MaxDim, n \in TargetSizes}
    /\ ret = [done |-> FALSE]

CallResizeAndPad ==
    /\ args.fn = "resize_and_pad" /\ ~ret.done
    /\ \E c \in ColorSamples :
         ret' = [done |-> TRUE,
                 val |-> resize_and_pad(<<args.h, args.w>>, <<args.N, args.N>>, c)]
    /\ UNCHANGED args
    /\ UNCHANGED <<batchVars, movVars>>

SpecPad == InitPad /\ [][CallResizeAndPad]_vars

InitHead ==
    /\ BatchIdle /\ MovIdle
    /\ args \in UNION {{[fn |-> "get_head_crop", H |-> h, W |-> w, face |-> f] :
                           f \in FaceRects(h, w)} :
                       h \in 1..MaxFrameH, w \in 1..MaxFrameW}
    /\ ret = [done |-> FALSE]

CallGetHeadCrop ==
    /\ args.fn = "get_head_crop" /\ ~ret.done
    /\ \E c \in ColorSamples :
         ret' = [done |-> TRUE,
                 val |-> get_head_crop(<<args.H, args.W>>, args.face, c)]
    /\ UNCHANGED args
    /\ UNCHANGED <<batchVars, movVars>>

SpecHead == InitHead /\ [][CallGetHeadCrop]_vars

\* image_size = int(input(...) or 512)
DefaultSize == 512

ImageSizes == {Inset + 1, Inset + MaxMargin, DefaultSize}

InitImage ==
    /\ BatchIdle /\ MovIdle
    /\ args \in {[fn |-> "process_image",
                  file |-> File(FALSE, TRUE, TRUE, d, w, h, t),
                  output_format |-> fmt, size |-> sz,
                  imread_orients |-> io, disk_ok |-> ok] :
                    d \in BOOLEAN, w \in Inset..(Inset + MaxMargin),
                    h \in Inset..(Inset + MaxMargin), t \in 0..8,
                    fmt \in OutputFormats, sz \in ImageSizes,
                    io \in BOOLEAN, ok \in BOOLEAN}
    /\ ret = [done |-> FALSE]

CallProcessImage ==
    /\ args.fn = "process_image" /\ ~ret.done
    /\ \E r \in process_image(args.file, args.output_format, args.size,
                              args.imread_orients, args.disk_ok) :
         ret' = [done |-> TRUE, val |-> r]
    /\ UNCHANGED args
    /\ UNCHANGED <<batchVars, movVars>>

SpecImage == InitImage /\ [][CallProcessImage]_vars

InitSquare ==
    /\ BatchIdle /\ MovIdle
    /\ args \in {[fn |-> "make_square_and_resize", w |-> w, h |-> h, size |-> sz] :
                    w \in 1..MaxSide, h \in 1..MaxSide, sz \in 1..MaxSize}
    /\ ret = [done |-> FALSE]

CallMakeSquareAndResize ==
    /\ args.fn = "make_square_and_resize" /\ ~ret.done
    /\ \E img \in make_square_and_resize(
                     Image(args.w, args.h, 0, FALSE, [kind |-> "noattr"]),
                     args.size) :
         ret' = [done |-> TRUE, val |-> img]
    /\ UNCHANGED args
    /\ UNCHANGED <<batchVars, movVars>>

SpecSquare == InitSquare /\ [][CallMakeSquareAndResize]_vars

\* The channel values tried for a pixel: the darkest ones and full scale.
Bytes == (0..MaxDark) \cup {255}

\* One pixel of an image wider and higher than the inset, at column x, row y.
InitMatte ==
    /\ BatchIdle /\ MovIdle
    /\ args \in {[fn |-> "remove_background_using_grabcut", x |-> x, y |-> y,
                  bgr |-> <<b, g, r>>] :
                    x \in {Inset - 1, Inset}, y \in {Inset - 1, Inset},
                    b \in Bytes, g \in Bytes, r \in Bytes}
    /\ ret = [done |-> FALSE]

\* cv2.grabCut with GC_INIT_WITH_RECT: a pixel outside the rect stays
\* GC_BGD (0); one inside ends GC_PR_BGD (2) or GC_PR_FGD (3), as the
\* segmentation decides.
GrabCutMask(x, y) == IF x >= Inset /\ y >= Inset THEN {2, 3} ELSE {0}

CallMatte ==
    /\ args.fn = "remove_background_using_grabcut" /\ ~ret.done
    /\ \E m \in GrabCutMask(args.x, args.y) :
         ret' = [done |-> TRUE, mask |-> m, rgba |-> matte(args.bgr, m)]
    /\ UNCHANGED args
    /\ UNCHANGED <<batchVars, movVars>>

SpecMatte == InitMatte /\ [][CallMatte]_vars

(***************************************************************************)
(*                            Properties                                   *)
(***************************************************************************)

\* C1 (SpecPad): for every image of height h >= 1 and width w >= 1 and every
\* target size N, resize_and_pad returns an N x N image, the scaled
\* dimensions being floor(h*N/max(h,w)) and floor(w*N/max(h,w)) and the
\* padding on each of two opposite sides floor((N - scaled)/2).
C1_PaddedToTargetSquare ==
    ret.done =>
        /\ ~ret.val.raised
        /\ ret.val.new_size = <<(args.h * args.N) \div Max(args.h, args.w),
                                (args.w * args.N) \div Max(args.h, args.w)>>
        /\ ret.val.pad = <<(args.N - ret.val.new_size[1]) \div 2,
                           (args.N - ret.val.new_size[2]) \div 2>>
        /\ ret.val.shape = <<args.N, args.N>>

\* C2 (Spec): files that fail is_valid_image take no sequence number: every
\* visited valid file is given the name image_<its rank among the valid
\* files>, an invalid file is given none, and when the loop has run to its
\* end the names given are exactly image_1 .. image_k, k the number of valid
\* files.
ValidUpTo(i) == {j \in 1..i : source_dir[j].valid}
Suffix == [PNG |-> "png", JPEG |-> "jpeg", JPG |-> "jpg"]
ImageName(k) == "image_" \o ToString(k) \o "." \o Suffix[cfg.output_format]
C2_InvalidFilesTakeNoNumber ==
    pc \in {"loop", "done", "aborted"} =>
        /\ \A i \in DOMAIN assigned :
              assigned[i] = IF source_dir[i].valid
                            THEN ImageName(Cardinality(ValidUpTo(i)))
                            ELSE ""
        /\ pc = "done" =>
              {assigned[i] : i \in DOMAIN assigned} \ {""} =
                  {ImageName(k) : k \in 1..Cardinality(ValidUpTo(Len(source_dir)))}

\* A corrupt file between two images that were written: the second image
\* is image_2.
C2_Witness ==
    /\ pc = "done" /\ Len(source_dir) = 3 /\ cfg.output_format = "PNG"
    /\ outcome = <<"written", "skipped", "written">>
    /\ assigned = <<"image_1.png", "", "image_2.png">>

\* C3 (Spec): a failure of any stage of process_image on one image is caught
\* and only that image is skipped: the batch is never aborted and every file
\* listed after the failing one is still visited.
C3_FailureSkipsOneImage ==
    /\ pc # "aborted"
    /\ \A i \in DOMAIN outcome : outcome[i] # "raised"
    /\ pc = "done" => Len(outcome) = Len(source_dir)

FramesWithFaces == {i \in DOMAIN history : history[i].faces >= 1}
C7_OutputIsSizeSquare ==
    ret.done => ret.val.w = args.size /\ ret.val.h = args.size

\* C8 (SpecImage): in process_image the orientation tag of the source image
\* decides how the image is turned before it is cropped: 3 by 180 degrees,
\* 6 by 270, 8 by 90, anything else (or no tag) not at all.
TurnForTag(tag) ==
    CASE tag = 3 -> 180 [] tag = 6 -> 270 [] tag = 8 -> 90 [] OTHER -> 0
C8_TagDecidesRotation ==
    ret.done /\ ret.val.status = "written" =>
        /\ ret.val.img.turn = TurnForTag(args.file.tag)
        /\ ~ret.val.img.mirrored

\* C9 (Spec), as stated: sequence_number - 1 is the number of output files
\* written, in every state of the loop.
C9_CounterCountsWrittenFiles ==
    pc \in {"loop", "done", "aborted"} => sequence_number - 1 = Cardinality(written)

\* C9 (Spec), amended: sequence_number - 1 is the number of valid files for
\* which process_image has returned, whether it wrote the file or caught an
\* IOError; the files written are those of the calls that wrote, each under
\* the number the counter had at its call, so a caught failure leaves its
\* number unused.
Returned == {i \in DOMAIN outcome : outcome[i] \in {"written", "caught"}}
C9_CounterCountsReturnedCalls ==
    pc \in {"loop", "done", "aborted"} =>
        /\ sequence_number - 1 = Cardinality(Returned)
        /\ {x.name : x \in written} =
              {ImageName(Cardinality({j \in Returned : j <= i})) :
                  i \in {k \in Returned : outcome[k] = "written"}}
        /\ Cardinality(written) =
              Cardinality({i \in Returned : outcome[i] = "written"})

\* A caught failure followed by a write: image_1 is missing, image_2 exists.
C9_Witness ==
    /\ pc = "done" /\ cfg.output_format = "PNG"
    /\ outcome = <<"caught", "written">>
    /\ {x.name : x \in written} = {"image_2.png"}
    /\ sequence_number = 3

\* C10 (SpecMatte): the alpha of a pixel is decided by the mask alone:
\* (probable) foreground is opaque, (probable) background is transparent
\* with its colour channels zero.
C10_AlphaFollowsMask ==
    ret.done =>
        IF ret.mask \in {1, 3}
        THEN ret.rgba[4] = 255
        ELSE ret.rgba = <<0, 0, 0, 0>>

=============================================================================
